---- MODULE Spec2Model ----
(***************************************************************************)
(* Model of the remote-control ingestion and persistence core of           *)
(* last-snow: the settings store (src/src/store.rs), the record log, the   *)
(* control message dispatcher and the ingestion entry point                *)
(* (src/src/main.rs).                                                      *)
(*                                                                         *)
(* The disk is the only state the two flows share: the settings file       *)
(* `.settings`, the staging file `tmp.csv` and the archive directory       *)
(* `sentences/`, all below public_dir().                                   *)
(***************************************************************************)
EXTENDS Integers, Sequences, FiniteSets, TLC

----------------------------------------------------------------------------
(* Bounds of the model *)

\* number of sentences the visitor submits in one run
MaxSubmits == 3
\* number of entries of a bundle
MaxBundleLen == 2

(* Program constants *)

\* main.rs:375  json!(160)
DefaultMaxCharacters == 160
\* main.rs:383  json!(100)
DefaultMaxSentencesPerCsv == 100
\* main.rs:209  let mut sentences_per_csv = 100;
FallbackSentencesPerCsv == 100

----------------------------------------------------------------------------
(* Values that travel on the control channel *)

\* int32 arguments tried for /max_characters and /max_sentences_per_csv
Int32Vals == {-1, 0, 1, 2}
\* string arguments tried for /td_osc_address
AddrVals == {"10.0.0.2:9000"}

KeyOrder == <<"max_characters", "max_sentences_per_csv", "td_osc_address">>
Keys == {KeyOrder[i] : i \in 1..Len(KeyOrder)}

EmptyMap == [k \in {} |-> 0]

\* HashMap::extend / HashMap::insert: the right map wins on a key conflict
Extend(a, b) ==
    [k \in (DOMAIN a) \cup (DOMAIN b) |-> IF k \in DOMAIN b THEN b[k] ELSE a[k]]

----------------------------------------------------------------------------
(* usize arithmetic: 64-bit unsigned numbers as four 16-bit limbs, most    *)
(* significant first                                                       *)

Limb == 2^16

\* `x as usize` for a non-negative x below 2^31
usize(x) == <<0, 0, x \div Limb, x % Limb>>

\* `val.as_i64().unwrap() as usize` for an int32 val: sign extension, then
\* reinterpretation of the 64 bits as unsigned (main.rs:215)
as_usize(val) ==
    IF val >= 0
    THEN usize(val)
    ELSE LET w == (val + 2147483647) + 1   \* val + 2^31, the low 31 bits
         IN  <<Limb - 1, Limb - 1, (Limb \div 2) + (w \div Limb), w % Limb>>

\* a >= b on usize
RECURSIVE usize_ge_from(_, _, _)
usize_ge_from(a, b, i) ==
    IF i > Len(a) THEN TRUE
    ELSE IF a[i] > b[i] THEN TRUE
    ELSE IF a[i] < b[i] THEN FALSE
    ELSE usize_ge_from(a, b, i + 1)

\* a > b on usize: the rotation test written with > instead of >=
usize_gt(a, b) == a # b /\ usize_ge_from(a, b, 1)

usize_ge(a, b) == usize_ge_from(a, b, 1)

----------------------------------------------------------------------------
(* Files *)

\* the settings file: absent, or bytes that are either a JSON object (its
\* members in file order) or something serde_json rejects (also the empty
\* file)
NoFile == [exists |-> FALSE, valid |-> FALSE, members |-> <<>>]
GarbageFile == [exists |-> TRUE, valid |-> FALSE, members |-> <<>>]

\* a CSV file: absent, or a sequence of rows
NoCsv == [exists |-> FALSE, rows |-> <<>>]
HeaderRow == [header |-> TRUE, sentence |-> 0]
\* the record of the n-th submission (language, sentence text, timestamp)
Row(n) == [header |-> FALSE, sentence |-> n]

\* names in the archive directory
ArchiveName(k) == ToString(k) \o ".csv"
StrayName == "notes.csv"
MaxIndex == MaxSubmits + 1

\* entry.path().file_stem().to_str().parse::<usize>()  (main.rs:132-139)
Decimal == [k \in 0..MaxIndex |-> ToString(k)]

parse_stem(name) ==
    IF \E k \in 0..MaxIndex : name = Decimal[k] \o ".csv"
    THEN [ok |-> TRUE,
          val |-> CHOOSE k \in 0..MaxIndex : name = Decimal[k] \o ".csv"]
    ELSE [ok |-> FALSE, val |-> 0]

NoDir == [exists |-> FALSE, files |-> EmptyMap]
EmptyDir == [exists |-> TRUE, files |-> EmptyMap]

----------------------------------------------------------------------------
(* store.rs *)

\* a serialization that loses the last member
default_serialize_short(cache) ==
    LET ks == SelectSeq(KeyOrder, LAMBDA k : k \in DOMAIN cache)
    IN  [i \in 1..(Len(ks) - 1) |-> <<ks[i], cache[ks[i]]>>]

\* serde_json::to_vec(&cache): one member per key
default_serialize(cache) ==
    LET ks == SelectSeq(KeyOrder, LAMBDA k : k \in DOMAIN cache)
    IN  [i \in 1..Len(ks) |-> <<ks[i], cache[ks[i]]>>]

\* serde_json::from_slice(bytes): a later member of the same name wins
default_deserialize(file) ==
    LET ms == file.members
        ks == {ms[i][1] : i \in 1..Len(ms)}
        last(k) == CHOOSE i \in 1..Len(ms) :
                      /\ ms[i][1] = k
                      /\ \A j \in 1..Len(ms) : ms[j][1] = k => j <= i
    IN  [ok |-> file.valid, map |-> [k \in ks |-> ms[last(k)][2]]]

\* StoreBuilder::new(path).build()
StoreBuilder_new ==
    [has_defaults |-> FALSE, defaults |-> EmptyMap, cache |-> EmptyMap]

\* a load that empties the cache before it reads the file
load_clears_first(store, file) ==
    IF ~file.exists \/ ~file.valid
    THEN [ok |-> FALSE, store |-> [store EXCEPT !.cache = EmptyMap]]
    ELSE [ok |-> TRUE,
          store |-> [store EXCEPT !.cache = default_deserialize(file).map]]

\* a load in which the cache wins over the file on a key conflict
load_cache_wins(store, file) ==
    IF ~file.exists \/ ~file.valid THEN [ok |-> FALSE, store |-> store]
    ELSE [ok |-> TRUE,
          store |-> [store EXCEPT !.cache =
                        Extend(default_deserialize(file).map, store.cache)]]

\* Store::load: Err when the file cannot be read or deserialized, and then
\* the cache is not touched
load(store, file) ==
    IF ~file.exists THEN [ok |-> FALSE, store |-> store]
    ELSE LET d == default_deserialize(file)
         IN  IF ~d.ok THEN [ok |-> FALSE, store |-> store]
             ELSE [ok |-> TRUE,
                   store |-> [store EXCEPT !.cache = Extend(store.cache, d.map)]]

\* Store::save: the file is created (truncated) and gets the whole cache
save(store) ==
    [exists |-> TRUE, valid |-> TRUE, members |-> default_serialize(store.cache)]

\* an insert that keeps the value of a key the cache already has
insert_keep_old(store, key, value) ==
    [store EXCEPT !.cache = Extend([k \in {key} |-> value], store.cache)]

\* Store::insert
insert(store, key, value) ==
    [store EXCEPT !.cache = Extend(store.cache, [k \in {key} |-> value])]

\* Store::has
has(store, key) == key \in DOMAIN store.cache

\* Store::get, as <<>> for None and <<v>> for Some(v)
get(store, key) == IF has(store, key) THEN <<store.cache[key]>> ELSE <<>>

\* StoreBuilder::defaults: the defaults replace the cache of the builder
StoreBuilder_defaults(builder, defaults) ==
    [has_defaults |-> TRUE, defaults |-> defaults, cache |-> defaults]

\* StoreBuilder::default: one pair goes into the cache and into the defaults
StoreBuilder_default(builder, key, value) ==
    [has_defaults |-> TRUE,
     defaults |-> Extend(builder.defaults, [k \in {key} |-> value]),
     cache |-> Extend(builder.cache, [k \in {key} |-> value])]

\* Store::delete: the store, and whether the key was present
delete(store, key) ==
    [flag |-> has(store, key),
     store |-> [store EXCEPT !.cache =
                   [k \in (DOMAIN store.cache) \ {key} |-> store.cache[k]]]]

\* Store::clear
clear(store) == [store EXCEPT !.cache = EmptyMap]

\* a reset that lays the defaults over the cache and keeps the other keys
reset_keeps_others(store) ==
    IF store.has_defaults
    THEN [store EXCEPT !.cache = Extend(store.cache, store.defaults)]
    ELSE clear(store)

\* Store::reset
reset(store) ==
    IF store.has_defaults
    THEN [store EXCEPT !.cache = store.defaults]
    ELSE clear(store)

----------------------------------------------------------------------------
(* main.rs: the record log *)

\* the disk below public_dir()
World(settings, tmp, dir) == [settings |-> settings, tmp |-> tmp, dir |-> dir]

\* count_csv_rows: the csv reader takes the first row as the header and
\* yields the others; a file that cannot be opened counts 0
count_csv_rows(file) ==
    IF ~file.exists \/ Len(file.rows) = 0 THEN 0 ELSE Len(file.rows) - 1

\* a write_sentence that serializes every record with its header
write_sentence_always_header(row, file, headers) ==
    [exists |-> TRUE, rows |-> file.rows \o <<HeaderRow, row>>]

\* write_sentence: open with create + append; serialize() writes the header
\* row before the first record, write_record() writes the record only
write_sentence(row, file, headers) ==
    [exists |-> TRUE,
     rows |-> file.rows \o (IF headers THEN <<HeaderRow, row>> ELSE <<row>>)]

\* get_new_filename that takes the highest index present, not the one after
get_new_filename_reuse_last(dir) ==
    LET names == DOMAIN dir.files
        idxs == {parse_stem(n).val : n \in names} \cup {1}
        last_csv_idx == CHOOSE m \in idxs : \A i \in idxs : i <= m
    IN  [panic |-> \E n \in names : ~parse_stem(n).ok,
         dir |-> [dir EXCEPT !.exists = TRUE],
         name |-> ArchiveName(last_csv_idx)]

\* get_new_filename that numbers by the count of the entries, not by their
\* maximum
get_new_filename_by_count(dir) ==
    [panic |-> \E n \in DOMAIN dir.files : ~parse_stem(n).ok,
     dir |-> [dir EXCEPT !.exists = TRUE],
     name |-> ArchiveName(Cardinality(DOMAIN dir.files) + 1)]

\* get_new_filename: create_dir_all, then the maximum of the parsed stems of
\* all entries; the unwrap of a failed parse panics
get_new_filename(dir) ==
    LET names == DOMAIN dir.files
        idxs == {parse_stem(n).val : n \in names} \cup {0}
        last_csv_idx == CHOOSE m \in idxs : \A i \in idxs : i <= m
    IN  [panic |-> \E n \in names : ~parse_stem(n).ok,
         dir |-> [dir EXCEPT !.exists = TRUE],
         name |-> ArchiveName(last_csv_idx + 1)]

\* paths the remove commands build
TmpPath == [at |-> "tmp", name |-> "", via_dir |-> FALSE]

\* base_dir.join("sentences").join(filename): a filename that starts with
\* "../" names a file of base_dir, reached through the archive directory
OutputPath(filename) ==
    IF filename = "../tmp.csv" THEN [at |-> "tmp", name |-> "", via_dir |-> TRUE]
    ELSE IF filename = "../.settings"
         THEN [at |-> "settings", name |-> "", via_dir |-> TRUE]
         ELSE [at |-> "dir", name |-> filename, via_dir |-> TRUE]

\* file_path.exists()
path_exists(p, w) ==
    /\ p.via_dir => w.dir.exists
    /\ CASE p.at = "tmp" -> w.tmp.exists
         [] p.at = "settings" -> w.settings.exists
         [] OTHER -> p.name \in DOMAIN w.dir.files

\* remove_file_if_exists
remove_file_if_exists(p, w) ==
    IF ~path_exists(p, w) THEN w
    ELSE CASE p.at = "tmp" -> [w EXCEPT !.tmp = NoCsv]
           [] p.at = "settings" -> [w EXCEPT !.settings = NoFile]
           [] OTHER ->
                [w EXCEPT !.dir.files =
                    [n \in (DOMAIN w.dir.files) \ {p.name} |-> w.dir.files[n]]]

\* remove_all_csv: the unwrap of read_dir panics when the archive directory
\* does not exist; otherwise every entry and then tmp.csv are removed
remove_all_csv(w) ==
    IF ~w.dir.exists THEN [panic |-> TRUE, w |-> w]
    ELSE [panic |-> FALSE,
          w |-> remove_file_if_exists(TmpPath,
                    [w EXCEPT !.dir.files = EmptyMap])]

----------------------------------------------------------------------------
(* main.rs: the ingestion entry point *)

\* submit_sentence for the n-th sentence; bindOk and sendOk are the
\* outcomes of UdpSocket::bind and of send_to
submit_sentence(n, w, bindOk, sendOk) ==
    LET rows == count_csv_rows(w.tmp)
        tmp1 == write_sentence(Row(n), w.tmp, rows = 0)
        w1 == [w EXCEPT !.tmp = tmp1]
        store == load(StoreBuilder_new, w.settings).store
        sentences_per_csv ==
            IF has(store, "max_sentences_per_csv")
            THEN as_usize(store.cache["max_sentences_per_csv"])
            ELSE usize(FallbackSentencesPerCsv)
        forward ==
            IF ~has(store, "td_osc_address") THEN "none"
            ELSE IF ~bindOk THEN "bind_failed"
            ELSE IF ~sendOk THEN "send_failed"
            ELSE "sent"
        due == usize_ge(usize(rows + 1), sentences_per_csv)
        g == get_new_filename(w.dir)
    IN  IF forward = "bind_failed"
        THEN [result |-> "panic", w |-> w1, forward |-> forward,
              due |-> due, rotated |-> ""]
        ELSE IF ~due
        THEN [result |-> "ok", w |-> w1, forward |-> forward,
              due |-> due, rotated |-> ""]
        ELSE IF g.panic
        THEN [result |-> "panic", w |-> [w1 EXCEPT !.dir = g.dir],
              forward |-> forward, due |-> due, rotated |-> ""]
        ELSE [result |-> "ok",
              w |-> [w1 EXCEPT !.tmp = NoCsv,
                               !.dir = [exists |-> TRUE,
                                        files |-> Extend(g.dir.files,
                                           [k \in {g.name} |-> tmp1.rows])]],
              forward |-> forward, due |-> due, rotated |-> g.name]

----------------------------------------------------------------------------
(* main.rs: control messages *)

\* OscType::Int(v) and OscType::String(s)
OscInt(v) == <<"Int", v>>
OscString(s) == <<"String", s>>

\* OscPacket::Message and OscPacket::Bundle
Message(addr, args) ==
    [type |-> "message", addr |-> addr, args |-> args, content |-> <<>>]
Bundle(content) ==
    [type |-> "bundle", addr |-> "#bundle", args |-> <<>>, content |-> content]

\* the arm of the match on (msg.addr, msg.args) that a message takes
match_arm(msg) ==
    LET one(t) == Len(msg.args) = 1 /\ msg.args[1][1] = t
        none == Len(msg.args) = 0
    IN  CASE msg.addr = "/td_osc_address" /\ one("String") -> "td_osc_address"
          [] msg.addr = "/max_characters" /\ one("Int") -> "max_characters"
          [] msg.addr = "/max_sentences_per_csv" /\ one("Int")
                -> "max_sentences_per_csv"
          [] msg.addr = "/remove_all_csv" /\ none -> "remove_all_csv"
          [] msg.addr = "/remove_output_csv" /\ one("String") -> "remove_output_csv"
          [] msg.addr = "/remove_tmp_csv" /\ none -> "remove_tmp_csv"
          [] OTHER -> "invalid"

\* handle_packet, threaded through r = [w, panicked, saves]: the disk, whether
\* the thread has panicked, and the number of store.save() calls so far
RECURSIVE handle_packet(_, _)
RECURSIVE handle_bundle(_, _, _)

handle_message(msg, r) ==
    LET store == load(StoreBuilder_new, r.w.settings).store
        arm == match_arm(msg)
        store1 ==
            IF arm \in {"td_osc_address", "max_characters", "max_sentences_per_csv"}
            THEN insert(store, arm, msg.args[1][2])
            ELSE store
        eff ==
            CASE arm = "remove_all_csv" -> remove_all_csv(r.w)
              [] arm = "remove_output_csv" ->
                    [panic |-> FALSE,
                     w |-> remove_file_if_exists(OutputPath(msg.args[1][2]), r.w)]
              [] arm = "remove_tmp_csv" ->
                    [panic |-> FALSE, w |-> remove_file_if_exists(TmpPath, r.w)]
              [] OTHER -> [panic |-> FALSE, w |-> r.w]
    IN  IF eff.panic
        THEN [w |-> eff.w, panicked |-> TRUE, saves |-> r.saves]
        ELSE [w |-> [eff.w EXCEPT !.settings = save(store1)],
              panicked |-> FALSE, saves |-> r.saves + 1]

handle_bundle(content, i, r) ==
    IF i > Len(content) \/ r.panicked THEN r
    ELSE handle_bundle(content, i + 1, handle_packet(content[i], r))

handle_packet(packet, r) ==
    IF packet.type = "message"
    THEN handle_message(packet, r)
    ELSE handle_bundle(packet.content, 1, r)

\* a datagram: the encoding of a packet, or bytes that do not decode
Encoded(packet) == [wellformed |-> TRUE, packet |-> packet]
MalformedDatagram == [wellformed |-> FALSE, packet |-> Bundle(<<>>)]

\* rosc::decoder::decode_udp
decode_udp(datagram) == [ok |-> datagram.wellformed, packet |-> datagram.packet]

----------------------------------------------------------------------------
(* The datagrams of the model *)

CharVals == {200}
OutputNames == {ArchiveName(1), ArchiveName(2), StrayName,
                "../tmp.csv", "../.settings"}

SettingsMessages ==
    {Message("/td_osc_address", <<OscString(a)>>) : a \in AddrVals}
    \cup {Message("/max_characters", <<OscInt(v)>>) : v \in CharVals}
    \cup {Message("/max_sentences_per_csv", <<OscInt(v)>>) : v \in Int32Vals}

RemoveMessages ==
    {Message("/remove_all_csv", <<>>), Message("/remove_tmp_csv", <<>>)}
    \cup {Message("/remove_output_csv", <<OscString(f)>>) : f \in OutputNames}

\* unknown addresses, and known addresses with the wrong argument shape
InvalidMessages ==
    {Message("/foo", <<OscInt(1)>>),
     Message("/max_characters", <<OscString("200")>>),
     Message("/max_characters", <<OscInt(1), OscInt(2)>>),
     Message("/remove_all_csv", <<OscInt(1)>>)}

Messages == SettingsMessages \cup RemoveMessages \cup InvalidMessages

InnerBundle ==
    Bundle(<<Message("/max_characters", <<OscInt(200)>>),
             Message("/max_sentences_per_csv", <<OscInt(2)>>)>>)

BundleEntries ==
    {Message("/max_sentences_per_csv", <<OscInt(1)>>),
     Message("/remove_all_csv", <<>>),
     InnerBundle}

Bundles ==
    UNION {{Bundle(c) : c \in [1..n -> BundleEntries]} : n \in 0..MaxBundleLen}

Packets == Messages \cup Bundles

Datagrams == {MalformedDatagram} \cup {Encoded(p) : p \in Packets}

\* what a datagram is, for the record of the last operation
DatagramClass(d) ==
    IF ~d.wellformed THEN "malformed"
    ELSE IF d.packet.type = "bundle" THEN "bundle"
    ELSE match_arm(d.packet)

----------------------------------------------------------------------------
(* The state machine *)

VARIABLES
    settingsFile,   \* the file .settings
    tmpCsv,         \* the staging file tmp.csv
    sentencesDir,   \* the archive directory sentences/
    listener,       \* the listener thread: "running", "panicked", "stopped"
    ui,             \* the main thread: "running", "panicked"
    submitted,      \* number of sentences submitted so far
    onlySubmits,    \* no datagram has been received yet
    last,           \* the record of the last operation
    store,          \* a Store object that a caller keeps and works on
    storeOp,        \* the last call on that store and what it returned
    sub,            \* the submission in progress, step by step
    lst             \* the control message in progress, step by step

vars == <<settingsFile, tmpCsv, sentencesDir, listener, ui, submitted,
          onlySubmits, last, store, storeOp, sub, lst>>

\* no store call yet, no submission and no message in progress
NoStoreOp == [op |-> "build", ok |-> TRUE, flag |-> FALSE]
SubIdle == [pc |-> "idle", rows |-> 0, threshold |-> usize(0),
            forward |-> FALSE, name |-> ""]
LstIdle == [pc |-> "idle", arm |-> "", name |-> "", store |-> StoreBuilder_new,
            before |-> NoFile]

\* the variables that the whole-handler actions do not use
stepVars == <<store, storeOp, sub, lst>>

Disk == World(settingsFile, tmpCsv, sentencesDir)

\* main, lines 367-391: load, the two defaults, save; a failed save is only
\* logged and leaves the file as it was
main_startup(pre, saveOk) ==
    LET s0 == load(StoreBuilder_new, pre).store
        s1 == IF has(s0, "max_characters") THEN s0
              ELSE insert(s0, "max_characters", DefaultMaxCharacters)
        s2 == IF has(s1, "max_sentences_per_csv") THEN s1
              ELSE insert(s1, "max_sentences_per_csv", DefaultMaxSentencesPerCsv)
    IN  IF saveOk THEN save(s2) ELSE pre

\* the settings file that main finds: none, an unreadable one, or the one an
\* earlier run saved
PreMaps ==
    {EmptyMap}
    \cup {[k \in {"max_sentences_per_csv"} |-> v] : v \in {1, 2}}
    \cup {[k \in {"max_sentences_per_csv", "td_osc_address"} |->
              IF k = "td_osc_address" THEN "10.0.0.2:9000" ELSE v] : v \in {2}}

PreSettings ==
    {NoFile, GarbageFile}
    \cup {save([StoreBuilder_new EXCEPT !.cache = m]) : m \in PreMaps}

\* the archive directory that main finds: none, an empty one, or one with
\* a file that is not an archive file
PreDirs ==
    {NoDir, EmptyDir,
     [exists |-> TRUE, files |-> [n \in {StrayName} |-> <<>>]]}

NoOp == [op |-> "init", cls |-> "", result |-> "ok", saves |-> 0,
         forward |-> "none", due |-> FALSE, rotated |-> ""]

Init ==
    /\ \E pre \in PreSettings, saveOk \in BOOLEAN :
          settingsFile = main_startup(pre, saveOk)
    /\ tmpCsv = NoCsv
    /\ sentencesDir \in PreDirs
    /\ listener = "running"
    /\ ui = "running"
    /\ submitted = 0
    /\ onlySubmits = TRUE
    /\ last = NoOp
    /\ store = StoreBuilder_new
    /\ storeOp = NoStoreOp
    /\ sub = SubIdle
    /\ lst = LstIdle

\* ui.on_submit_text: submit_sentence("en", text).unwrap(); a panic of the
\* main thread ends the process
Submit(bindOk, sendOk) ==
    /\ ui = "running"
    /\ submitted < MaxSubmits
    /\ LET r == submit_sentence(submitted + 1, Disk, bindOk, sendOk)
       IN  /\ settingsFile' = r.w.settings
           /\ tmpCsv' = r.w.tmp
           /\ sentencesDir' = r.w.dir
           /\ ui' = IF r.result = "panic" THEN "panicked" ELSE "running"
           /\ last' = [op |-> "submit", cls |-> "", result |-> r.result,
                       saves |-> 0, forward |-> r.forward, due |-> r.due,
                       rotated |-> r.rotated]
    /\ submitted' = submitted + 1
    /\ UNCHANGED <<listener, onlySubmits>>
    /\ UNCHANGED stepVars

\* the listener loop, Ok arm of recv_from: decode_udp(..).unwrap(), then
\* handle_packet; a panic ends the listener thread
Recv(datagram) ==
    /\ ui = "running"
    /\ listener = "running"
    /\ LET d == decode_udp(datagram)
           r0 == [w |-> Disk, panicked |-> FALSE, saves |-> 0]
           r == IF d.ok THEN handle_packet(d.packet, r0)
                ELSE [r0 EXCEPT !.panicked = TRUE]
       IN  /\ settingsFile' = r.w.settings
           /\ tmpCsv' = r.w.tmp
           /\ sentencesDir' = r.w.dir
           /\ listener' = IF r.panicked THEN "panicked" ELSE "running"
           /\ last' = [op |-> "packet", cls |-> DatagramClass(datagram),
                       result |-> IF r.panicked THEN "panic" ELSE "ok",
                       saves |-> r.saves, forward |-> "none", due |-> FALSE,
                       rotated |-> ""]
    /\ onlySubmits' = FALSE
    /\ UNCHANGED <<ui, submitted>>
    /\ UNCHANGED stepVars

\* the listener loop, Err arm of recv_from: break
RecvError ==
    /\ ui = "running"
    /\ listener = "running"
    /\ listener' = "stopped"
    /\ UNCHANGED <<settingsFile, tmpCsv, sentencesDir, ui, submitted,
                   onlySubmits, last>>
    /\ UNCHANGED stepVars

Next ==
    \/ \E bindOk \in BOOLEAN, sendOk \in BOOLEAN : Submit(bindOk, sendOk)
    \/ \E datagram \in Datagrams : Recv(datagram)
    \/ RecvError

Spec == Init /\ [][Next]_vars

TypeOK ==
    /\ listener \in {"running", "panicked", "stopped"}
    /\ ui \in {"running", "panicked"}
    /\ submitted \in 0..MaxSubmits
    /\ onlySubmits \in BOOLEAN

----------------------------------------------------------------------------
(* Properties *)

\* the settings a freshly built store loads from the settings file
Loaded == load(StoreBuilder_new, settingsFile).store

\* the rotation threshold a submission works with
Threshold ==
    IF has(Loaded, "max_sentences_per_csv")
    THEN Loaded.cache["max_sentences_per_csv"]
    ELSE FallbackSentencesPerCsv

\* the records of a CSV file, and the records of submissions a..b
Records(rows) == SelectSeq(rows, LAMBDA r : ~r.header)
Submissions(a, b) == [i \in 1..(b - a + 1) |-> Row(a + i - 1)]

\* C1: from an empty archive directory and no staging file, N submissions
\* with a fixed positive threshold T leave the archive files 1.csv ..
\* floor(N/T).csv, each with T records in submission order, and a staging
\* file with the last N mod T records, or none when N mod T = 0.
C1_RotationLayout ==
    (/\ onlySubmits
     /\ ui = "running"
     /\ StrayName \notin DOMAIN sentencesDir.files
     /\ Threshold > 0)
    => LET N == submitted
           T == Threshold
           q == N \div T
       IN  /\ DOMAIN sentencesDir.files = {ArchiveName(k) : k \in 1..q}
           /\ \A k \in 1..q :
                 Records(sentencesDir.files[ArchiveName(k)])
                    = Submissions((k - 1) * T + 1, k * T)
           /\ IF N % T = 0
              THEN ~tmpCsv.exists
              ELSE /\ tmpCsv.exists
                   /\ Records(tmpCsv.rows) = Submissions(q * T + 1, N)

C1_Witness ==
    /\ onlySubmits
    /\ ui = "running"
    /\ Threshold = 2
    /\ submitted = 3
    /\ DOMAIN sentencesDir.files = {ArchiveName(1)}
    /\ Records(tmpCsv.rows) = <<Row(3)>>

\* C2: after every completed submission the staging file holds no more
\* records than the stored max_sentences_per_csv, whatever int32 is stored.
C2_StagingWithinThreshold ==
    (/\ last.op = "submit"
     /\ last.result = "ok"
     /\ has(Loaded, "max_sentences_per_csv"))
    => count_csv_rows(tmpCsv) <= Loaded.cache["max_sentences_per_csv"]

\* C3: a rotation renames the staging file to <k>.csv where k is one more
\* than the largest index among the archive files present, 1 when there is
\* none, whatever gaps the indices have.
C3_NextIndex ==
    [][(submitted' # submitted /\ last'.rotated # "") =>
          \E k \in 1..MaxIndex :
             /\ last'.rotated = ArchiveName(k)
             /\ \A j \in 0..MaxIndex :
                   ArchiveName(j) \in DOMAIN sentencesDir.files => j < k
             /\ k = 1 \/ ArchiveName(k - 1) \in DOMAIN sentencesDir.files
             /\ DOMAIN sentencesDir'.files
                   = (DOMAIN sentencesDir.files) \cup {ArchiveName(k)}
             /\ ~tmpCsv'.exists]_vars

\* a rotation into an archive whose lowest index was removed
C3_Witness ==
    /\ last.op = "submit"
    /\ last.rotated = ArchiveName(3)
    /\ DOMAIN sentencesDir.files = {ArchiveName(2), ArchiveName(3)}

\* C4: a datagram that cannot be decoded leaves the listener running, so
\* that later datagrams are still handled.
C4_ListenerSurvivesMalformed ==
    (last.op = "packet" /\ last.cls = "malformed") => listener = "running"

\* C5: with a forwarding address configured, a notification that cannot be
\* sent (bind or send failure) does not fail the submission: it completes,
\* and the rotation runs when it is due.
C5_ForwardFailureTolerated ==
    (last.op = "submit" /\ last.forward \in {"bind_failed", "send_failed"})
    => /\ last.result = "ok"
       /\ ui = "running"
       /\ last.due => last.rotated # ""

\* what the settings file persists: whether it exists, and its key/value
\* content
Persisted(file) ==
    [exists |-> file.exists,
     content |-> IF file.exists /\ file.valid
                 THEN default_deserialize(file).map ELSE EmptyMap]

\* C6: handling a message with an unknown address or with arguments of the
\* wrong shape changes neither the persisted settings (content and
\* existence of the file) nor the staging file nor any archive file.
C6_InvalidMessageNoMutation ==
    [][(last'.op = "packet" /\ last'.cls = "invalid") =>
          /\ Persisted(settingsFile') = Persisted(settingsFile)
          /\ tmpCsv' = tmpCsv
          /\ sentencesDir' = sentencesDir]_vars

\* C7: handling one top-level packet, a bundle included, saves the settings
\* store exactly once.
C7_OneSavePerPacket ==
    (last.op = "packet" /\ last.cls # "malformed" /\ last.result = "ok")
    => last.saves = 1

\* C8: after a settings message with argument v was handled, a fresh store
\* that loads the settings file returns v for the key of the message.
C8_SettingPersisted ==
    [][\A m \in SettingsMessages :
          Recv(Encoded(m)) =>
             LET fresh == load(StoreBuilder_new, settingsFile')
             IN  /\ fresh.ok
                 /\ get(fresh.store, match_arm(m)) = <<m.args[1][2]>>]_vars

\* a threshold message has replaced a stored threshold
C8_Witness ==
    /\ last.op = "packet"
    /\ last.cls = "max_sentences_per_csv"
    /\ last.result = "ok"
    /\ get(Loaded, "max_sentences_per_csv") = <<-1>>
    /\ get(Loaded, "max_characters") = <<200>>

\* C9: with a file in the archive directory whose name is not a number, a
\* due rotation fails with an error value returned to the caller of
\* submit_sentence (no crash), the staging file stays with the new record,
\* and no archive file changes.
C9_BadNameSurfacedAsError ==
    [][(/\ submitted' # submitted
        /\ last'.due
        /\ StrayName \in DOMAIN sentencesDir.files) =>
          /\ last'.result = "err"
          /\ ui' = "running"
          /\ tmpCsv'.exists
          /\ Records(tmpCsv'.rows)[Len(Records(tmpCsv'.rows))] = Row(submitted')
          /\ sentencesDir'.files = sentencesDir.files]_vars

\* C10: from any state of the record log, /remove_all_csv completes, leaves
\* no archive file and no staging file, and the listener keeps serving.
C10_RemoveAllCompletes ==
    (last.op = "packet" /\ last.cls = "remove_all_csv")
    => /\ last.result = "ok"
       /\ listener = "running"
       /\ ~tmpCsv.exists
       /\ DOMAIN sentencesDir.files = {}


\* a CSV file that starts with the header row and has record rows after it
HeaderFirstOnly(rows) ==
    /\ Len(rows) >= 1
    /\ rows[1].header
    /\ \A i \in 2..Len(rows) : ~rows[i].header

\* C11: with submissions and control messages handled one at a time, the
\* staging file and every archive file hold the header row exactly once, as
\* their first row, followed by record rows only.
C11_HeaderOnce ==
    /\ tmpCsv.exists => HeaderFirstOnly(tmpCsv.rows)
    /\ \A n \in DOMAIN sentencesDir.files :
          parse_stem(n).ok => HeaderFirstOnly(sentencesDir.files[n])

\* a staging file with two records next to an archive file
C11_Witness ==
    /\ tmpCsv.exists
    /\ Len(Records(tmpCsv.rows)) = 2
    /\ ArchiveName(1) \in DOMAIN sentencesDir.files
    /\ last.op = "submit"

----------------------------------------------------------------------------
(* The settings store on its own: one Store object, built with or without  *)
(* defaults, and the calls of its interface in any order                   *)

\* the values tried for each key
StoreVals(key) ==
    CASE key = "max_characters" -> {DefaultMaxCharacters, 200}
      [] key = "max_sentences_per_csv" -> {DefaultMaxSentencesPerCsv, 2}
      [] OTHER -> AddrVals

\* the maps tried as defaults
DefaultMaps ==
    {EmptyMap,
     [k \in {"max_characters", "max_sentences_per_csv"} |->
         IF k = "max_characters" THEN DefaultMaxCharacters
         ELSE DefaultMaxSentencesPerCsv]}

\* the stores a builder makes
BuiltStores ==
    {StoreBuilder_new}
    \cup {StoreBuilder_defaults(StoreBuilder_new, m) : m \in DefaultMaps}
    \cup {StoreBuilder_default(StoreBuilder_new, "max_characters",
                               DefaultMaxCharacters)}

\* the files the store may find
StoreFiles ==
    {NoFile, GarbageFile}
    \cup {save([StoreBuilder_new EXCEPT !.cache = m]) :
             m \in {EmptyMap,
                    [k \in {"max_characters"} |-> 200],
                    [k \in {"max_sentences_per_csv", "td_osc_address"} |->
                        IF k = "td_osc_address" THEN "10.0.0.2:9000" ELSE 2]}}

StoreInit ==
    /\ settingsFile \in StoreFiles
    /\ store \in BuiltStores
    /\ storeOp = NoStoreOp
    /\ tmpCsv = NoCsv
    /\ sentencesDir = NoDir
    /\ listener = "running"
    /\ ui = "running"
    /\ submitted = 0
    /\ onlySubmits = TRUE
    /\ last = NoOp
    /\ sub = SubIdle
    /\ lst = LstIdle

\* the variables that the store calls do not use
logVars == <<tmpCsv, sentencesDir, listener, ui, submitted, onlySubmits,
             last, sub, lst>>

StInsert(key, value) ==
    /\ store' = insert(store, key, value)
    /\ storeOp' = [op |-> "insert", ok |-> TRUE, flag |-> has(store, key)]
    /\ UNCHANGED settingsFile
    /\ UNCHANGED logVars

StDelete(key) ==
    /\ store' = delete(store, key).store
    /\ storeOp' = [op |-> "delete", ok |-> TRUE, flag |-> delete(store, key).flag]
    /\ UNCHANGED settingsFile
    /\ UNCHANGED logVars

\* flag: the file and the cache disagreed on a key, and the cache had a key
\* that the file has not
StLoad ==
    /\ store' = load(store, settingsFile).store
    /\ storeOp' =
          [op |-> "load", ok |-> load(store, settingsFile).ok,
           flag |-> LET m == default_deserialize(settingsFile).map
                    IN  /\ \E k \in (DOMAIN m) \cap (DOMAIN store.cache) :
                              m[k] # store.cache[k]
                        /\ (DOMAIN store.cache) \ (DOMAIN m) # {}]
    /\ UNCHANGED settingsFile
    /\ UNCHANGED logVars

StSave ==
    /\ settingsFile' = save(store)
    /\ storeOp' = [op |-> "save", ok |-> TRUE, flag |-> FALSE]
    /\ UNCHANGED store
    /\ UNCHANGED logVars

\* flag: the cache had a key outside the defaults and another value than
\* the default for a default key
StReset ==
    /\ store' = reset(store)
    /\ storeOp' =
          [op |-> "reset", ok |-> TRUE,
           flag |-> /\ (DOMAIN store.cache) \ (DOMAIN store.defaults) # {}
                    /\ \E k \in (DOMAIN store.cache) \cap (DOMAIN store.defaults) :
                          store.cache[k] # store.defaults[k]]
    /\ UNCHANGED settingsFile
    /\ UNCHANGED logVars

StClear ==
    /\ store' = clear(store)
    /\ storeOp' = [op |-> "clear", ok |-> TRUE, flag |-> FALSE]
    /\ UNCHANGED settingsFile
    /\ UNCHANGED logVars

StoreNext ==
    \/ \E key \in Keys : \E value \in StoreVals(key) : StInsert(key, value)
    \/ \E key \in Keys : StDelete(key)
    \/ StLoad
    \/ StSave
    \/ StReset
    \/ StClear

StoreSpec == StoreInit /\ [][StoreNext]_vars

\* C12: after insert calls and a save, a fresh store without defaults that
\* loads the same file holds exactly the saved cache: the last value
\* inserted for each key and no other key.
C12_SaveLoadRoundTrip ==
    storeOp.op = "save" =>
       LET fresh == load(StoreBuilder_new, settingsFile)
       IN  /\ fresh.ok
           /\ fresh.store.cache = store.cache

\* a saved cache with all three keys, two of them inserted over other values
C12_Witness ==
    /\ storeOp.op = "save"
    /\ DOMAIN store.cache = Keys
    /\ store.cache["max_characters"] = 200
    /\ store.cache["max_sentences_per_csv"] = 2

\* C13: a load that fails because the file is missing or cannot be
\* deserialized returns an error and leaves the cache exactly as it was.
C13_FailedLoadKeepsCache ==
    [][(StLoad /\ (~settingsFile.exists \/ ~settingsFile.valid)) =>
          /\ ~storeOp'.ok
          /\ store'.cache = store.cache]_vars

\* a failed load on a store whose cache holds inserted keys
C13_Witness ==
    /\ storeOp.op = "load"
    /\ ~storeOp.ok
    /\ DOMAIN store.cache = Keys
    /\ store.cache # store.defaults

\* C14: a successful load gives every key of the file the value of the file,
\* also over a cached or default value, and leaves the value of every key
\* that only the cache has.
C14_LoadOverlays ==
    [][(StLoad /\ settingsFile.exists /\ settingsFile.valid) =>
          LET m == default_deserialize(settingsFile).map
          IN  /\ storeOp'.ok
              /\ DOMAIN store'.cache = (DOMAIN store.cache) \cup (DOMAIN m)
              /\ \A k \in DOMAIN m : store'.cache[k] = m[k]
              /\ \A k \in (DOMAIN store.cache) \ (DOMAIN m) :
                    store'.cache[k] = store.cache[k]]_vars

\* a successful load over a cache that disagreed with the file on a key and
\* had a key of its own, on a store built with defaults
C14_Witness ==
    /\ storeOp.op = "load"
    /\ storeOp.ok
    /\ storeOp.flag
    /\ store.has_defaults

\* C15: reset makes the cache exactly the defaults on a store built with
\* defaults, and empty on a store built without.
C15_ResetRestoresDefaults ==
    [][StReset =>
          store'.cache = (IF store.has_defaults THEN store.defaults
                          ELSE EmptyMap)]_vars

\* a reset that dropped an inserted key and brought a default value back
C15_Witness ==
    /\ storeOp.op = "reset"
    /\ storeOp.flag
    /\ store.has_defaults
    /\ store.cache = store.defaults
    /\ DOMAIN store.defaults # {}

----------------------------------------------------------------------------
\* C16: when the settings file is missing, cannot be loaded or has no
\* max_sentences_per_csv key, submit_sentence does not fail and works with
\* the threshold 100: it rotates exactly when the row count after the write
\* reaches 100.
C16_FallbackThreshold ==
    [][(/\ submitted' # submitted
        /\ ~has(Loaded, "max_sentences_per_csv")) =>
          /\ last'.result = "ok"
          /\ ui' = "running"
          /\ (last'.rotated # "")
                <=> (count_csv_rows(tmpCsv) + 1 >= FallbackSentencesPerCsv)]_vars

----------------------------------------------------------------------------
(* The two threads step by step: the main thread runs submit_sentence one  *)
(* file system call after the other while the listener thread handles one  *)
(* message, and nothing orders the steps of the one against the other.     *)
(* A bundle is handled as its messages one after the other, so the         *)
(* datagrams here are single messages.                                     *)

StepMessages ==
    {Message("/max_sentences_per_csv", <<OscInt(v)>>) : v \in {1, 2}}
    \cup {Message("/remove_tmp_csv", <<>>),
          Message("/remove_all_csv", <<>>),
          Message("/foo", <<OscInt(1)>>)}

StepDatagrams == {MalformedDatagram} \cup {Encoded(m) : m \in StepMessages}

\* the threshold submit_sentence reads from a settings file (lines 208-217)
FileThreshold(file) ==
    LET s == load(StoreBuilder_new, file).store
    IN  IF has(s, "max_sentences_per_csv")
        THEN as_usize(s.cache["max_sentences_per_csv"])
        ELSE usize(FallbackSentencesPerCsv)

\* the end of a submission: its record, and the thread goes on or panics
SubEnd(step, result, due, rotated) ==
    /\ last' = [op |-> "submit", cls |-> step, result |-> result, saves |-> 0,
                forward |-> IF sub.forward THEN "sent" ELSE "none",
                due |-> due, rotated |-> rotated]
    /\ ui' = IF result = "panic" THEN "panicked" ELSE "running"
    /\ sub' = SubIdle

\* line 205: count_csv_rows
SubCount ==
    /\ ui = "running"
    /\ sub.pc = "idle"
    /\ submitted < MaxSubmits
    /\ submitted' = submitted + 1
    /\ sub' = [SubIdle EXCEPT !.pc = "counted", !.rows = count_csv_rows(tmpCsv)]
    /\ UNCHANGED <<settingsFile, tmpCsv, sentencesDir, listener, ui,
                   onlySubmits, last, store, storeOp, lst>>

\* line 206: write_sentence
SubWrite ==
    /\ ui = "running"
    /\ sub.pc = "counted"
    /\ tmpCsv' = write_sentence(Row(submitted), tmpCsv, sub.rows = 0)
    /\ sub' = [sub EXCEPT !.pc = "written"]
    /\ UNCHANGED <<settingsFile, sentencesDir, listener, ui, submitted,
                   onlySubmits, last, store, storeOp, lst>>

\* lines 208-217: the settings are read from the file as it is now
SubLoad ==
    /\ ui = "running"
    /\ sub.pc = "written"
    /\ sub' = [sub EXCEPT
                 !.pc = "loaded",
                 !.threshold = FileThreshold(settingsFile),
                 !.forward = has(load(StoreBuilder_new, settingsFile).store,
                                 "td_osc_address")]
    /\ UNCHANGED <<settingsFile, tmpCsv, sentencesDir, listener, ui, submitted,
                   onlySubmits, last, store, storeOp, lst>>

\* lines 218-236: the notification; a failed send_to is only logged
SubForward(bindOk) ==
    /\ ui = "running"
    /\ sub.pc = "loaded"
    /\ IF sub.forward /\ ~bindOk
       THEN SubEnd("forward", "panic",
                   usize_ge(usize(sub.rows + 1), sub.threshold), "")
       ELSE /\ sub' = [sub EXCEPT !.pc = "forwarded"]
            /\ UNCHANGED <<ui, last>>
    /\ UNCHANGED <<settingsFile, tmpCsv, sentencesDir, listener, submitted,
                   onlySubmits, store, storeOp, lst>>

\* lines 240-241: the test and get_new_filename
SubScan ==
    /\ ui = "running"
    /\ sub.pc = "forwarded"
    /\ LET due == usize_ge(usize(sub.rows + 1), sub.threshold)
           g == get_new_filename(sentencesDir)
       IN  IF ~due
           THEN /\ SubEnd("test", "ok", FALSE, "")
                /\ UNCHANGED sentencesDir
           ELSE /\ sentencesDir' = g.dir
                /\ IF g.panic
                   THEN SubEnd("scan", "panic", TRUE, "")
                   ELSE /\ sub' = [sub EXCEPT !.pc = "named", !.name = g.name]
                        /\ UNCHANGED <<ui, last>>
    /\ UNCHANGED <<settingsFile, tmpCsv, listener, submitted, onlySubmits,
                   store, storeOp, lst>>

\* line 243: fs::rename(..).unwrap(); the rename of a file that is not
\* there is an error
SubRename ==
    /\ ui = "running"
    /\ sub.pc = "named"
    /\ IF ~tmpCsv.exists \/ ~sentencesDir.exists
       THEN /\ SubEnd("rename", "panic", TRUE, "")
            /\ UNCHANGED <<tmpCsv, sentencesDir>>
       ELSE /\ SubEnd("rename", "ok", TRUE, sub.name)
            /\ tmpCsv' = NoCsv
            /\ sentencesDir' =
                  [sentencesDir EXCEPT !.files =
                      Extend(sentencesDir.files,
                             [k \in {sub.name} |-> tmpCsv.rows])]
    /\ UNCHANGED <<settingsFile, listener, submitted, onlySubmits,
                   store, storeOp, lst>>

\* the end of a message: its record, and the listener goes on or panics
LstEnd(result, saves) ==
    /\ last' = [op |-> "packet", cls |-> lst.arm, result |-> result,
                saves |-> saves, forward |-> "none", due |-> FALSE,
                rotated |-> ""]
    /\ listener' = IF result = "panic" THEN "panicked" ELSE "running"
    /\ lst' = LstIdle

\* lines 401-405 and 252-301: receive, decode, load the store, match the
\* message and insert into the cache
LstLoad(datagram) ==
    /\ ui = "running"
    /\ listener = "running"
    /\ lst.pc = "idle"
    /\ onlySubmits' = FALSE
    /\ LET d == decode_udp(datagram)
           s0 == load(StoreBuilder_new, settingsFile).store
           arm == match_arm(d.packet)
       IN  IF ~d.ok
           THEN /\ listener' = "panicked"
                /\ last' = [NoOp EXCEPT !.op = "packet", !.cls = "malformed",
                                        !.result = "panic"]
                /\ UNCHANGED lst
           ELSE /\ lst' = [pc |-> "loaded", arm |-> arm,
                           name |-> "",
                           store |-> IF arm = "max_sentences_per_csv"
                                     THEN insert(s0, arm, d.packet.args[1][2])
                                     ELSE s0,
                           before |-> settingsFile]
                /\ UNCHANGED <<listener, last>>
    /\ UNCHANGED <<settingsFile, tmpCsv, sentencesDir, ui, submitted,
                   store, storeOp, sub>>

\* lines 291-299: the arm of a remove command; remove_all_csv first empties
\* the archive directory (lines 161-166)
LstAct ==
    /\ ui = "running"
    /\ listener = "running"
    /\ lst.pc = "loaded"
    /\ CASE lst.arm = "remove_all_csv" ->
               IF ~sentencesDir.exists
               THEN /\ LstEnd("panic", 0)
                    /\ UNCHANGED <<tmpCsv, sentencesDir>>
               ELSE /\ sentencesDir' = EmptyDir
                    /\ lst' = [lst EXCEPT !.pc = "emptied"]
                    /\ UNCHANGED <<tmpCsv, listener, last>>
         [] lst.arm = "remove_tmp_csv" ->
               /\ tmpCsv' = remove_file_if_exists(TmpPath, Disk).tmp
               /\ lst' = [lst EXCEPT !.pc = "acted"]
               /\ UNCHANGED <<sentencesDir, listener, last>>
         [] OTHER ->
               /\ lst' = [lst EXCEPT !.pc = "acted"]
               /\ UNCHANGED <<tmpCsv, sentencesDir, listener, last>>
    /\ UNCHANGED <<settingsFile, ui, submitted, onlySubmits, store, storeOp,
                   sub>>

\* line 168: remove_all_csv removes tmp.csv last
LstRemoveTmp ==
    /\ ui = "running"
    /\ listener = "running"
    /\ lst.pc = "emptied"
    /\ tmpCsv' = remove_file_if_exists(TmpPath, Disk).tmp
    /\ lst' = [lst EXCEPT !.pc = "acted"]
    /\ UNCHANGED <<settingsFile, sentencesDir, listener, ui, submitted,
                   onlySubmits, last, store, storeOp, sub>>

\* store.rs line 194: File::create leaves an empty settings file
LstCreate ==
    /\ ui = "running"
    /\ listener = "running"
    /\ lst.pc = "acted"
    /\ settingsFile' = GarbageFile
    /\ lst' = [lst EXCEPT !.pc = "created"]
    /\ UNCHANGED <<tmpCsv, sentencesDir, listener, ui, submitted,
                   onlySubmits, last, store, storeOp, sub>>

\* store.rs line 195: write_all puts the serialized cache into the file
LstWrite ==
    /\ ui = "running"
    /\ listener = "running"
    /\ lst.pc = "created"
    /\ settingsFile' = save(lst.store)
    /\ LstEnd("ok", 1)
    /\ UNCHANGED <<tmpCsv, sentencesDir, ui, submitted, onlySubmits,
                   store, storeOp, sub>>

StepNext ==
    \/ SubCount
    \/ SubWrite
    \/ SubLoad
    \/ \E bindOk \in BOOLEAN : SubForward(bindOk)
    \/ SubScan
    \/ SubRename
    \/ \E datagram \in StepDatagrams : LstLoad(datagram)
    \/ LstAct
    \/ LstRemoveTmp
    \/ LstCreate
    \/ LstWrite

StepSpec == Init /\ [][StepNext]_vars

\* C17: however the steps of a submission interleave with the listener's
\* handling of /remove_tmp_csv or /remove_all_csv, the submission completes
\* without a crash; in particular a submission that gets to its rename finds
\* the staging file and completes.
C17_RenameFindsStaging ==
    (last.op = "submit" /\ last.cls = "rename") => last.result = "ok"

\* C18: the settings file a submission loads is never a half-written one:
\* the threshold it works with is the one persisted before or the one
\* persisted after the message the listener is handling, and never the
\* fallback 100 while a threshold is persisted.
C18_LoadSeesWholeFile ==
    [][SubLoad =>
         sub'.threshold \in
            (IF lst.pc = "idle"
             THEN {FileThreshold(settingsFile)}
             ELSE {FileThreshold(lst.before),
                   FileThreshold(save(lst.store))})]_vars

\* C19: whenever the staging file exists, also after the listener deleted it
\* and a submission created it again, its first row is the header.
C19_RecreatedStagingHasHeader ==
    tmpCsv.exists => (Len(tmpCsv.rows) > 0 /\ tmpCsv.rows[1] = HeaderRow)

----------------------------------------------------------------------------
(* The listener with a settings file that cannot be read: read(store_path) *)
(* in Store::load returns an error (store.rs line 177), handle_packet logs *)
(* it and goes on with the empty cache (lines 252-256).                    *)

\* Recv with every load of the packet's handling failing on the read
RecvUnread(datagram) ==
    /\ ui = "running"
    /\ listener = "running"
    /\ LET d == decode_udp(datagram)
           r0 == [w |-> World(NoFile, tmpCsv, sentencesDir),
                  panicked |-> FALSE, saves |-> 0]
           r == IF d.ok THEN handle_packet(d.packet, r0)
                ELSE [r0 EXCEPT !.panicked = TRUE]
       IN  /\ settingsFile' = IF r.saves = 0 THEN settingsFile
                              ELSE r.w.settings
           /\ tmpCsv' = r.w.tmp
           /\ sentencesDir' = r.w.dir
           /\ listener' = IF r.panicked THEN "panicked" ELSE "running"
           /\ last' = [op |-> "packet", cls |-> DatagramClass(datagram),
                       result |-> IF r.panicked THEN "panic" ELSE "ok",
                       saves |-> r.saves, forward |-> "none", due |-> FALSE,
                       rotated |-> ""]
    /\ onlySubmits' = FALSE
    /\ UNCHANGED <<ui, submitted>>
    /\ UNCHANGED stepVars

ReadFaultNext ==
    \/ Next
    \/ \E datagram \in Datagrams : RecvUnread(datagram)

ReadFaultSpec == Init /\ [][ReadFaultNext]_vars

\* C20: handling a settings message leaves every other persisted key
\* persisted with its value, whether the handler's load of the settings file
\* succeeds or fails.
C20_OtherKeysKept ==
    [][\A m \in SettingsMessages :
          (Recv(Encoded(m)) \/ RecvUnread(Encoded(m))) =>
             LET before == Persisted(settingsFile).content
                 after == Persisted(settingsFile').content
             IN  \A k \in DOMAIN before \ {match_arm(m)} :
                    /\ k \in DOMAIN after
                    /\ after[k] = before[k]]_vars

\* C21: handling /remove_output_csv with any string argument leaves the
\* staging file and the settings file as they are and removes at most one
\* file of the archive directory.
C21_RemoveOutputStaysInArchive ==
    [][\A f \in OutputNames :
          Recv(Encoded(Message("/remove_output_csv", <<OscString(f)>>))) =>
             /\ tmpCsv' = tmpCsv
             /\ settingsFile.exists =>
                   Persisted(settingsFile') = Persisted(settingsFile)
             /\ Cardinality(DOMAIN sentencesDir.files
                               \ DOMAIN sentencesDir'.files) <= 1]_vars

\* C22: a rotation takes a name that no file of the archive directory has
\* at the rename, and an archive file keeps its records from step to step as
\* long as it exists.
C22_ArchiveFilesImmutable ==
    [][/\ ((\E bindOk \in BOOLEAN, sendOk \in BOOLEAN : Submit(bindOk, sendOk))
              /\ last'.rotated # "")
             => last'.rotated \notin DOMAIN sentencesDir.files
       /\ (SubRename /\ last'.result = "ok")
             => last'.rotated \notin DOMAIN sentencesDir.files
       /\ \A n \in DOMAIN sentencesDir.files \cap DOMAIN sentencesDir'.files :
             sentencesDir'.files[n] = sentencesDir.files[n]]_vars

\* a rotation made 2.csv next to 1.csv, and 1.csv still holds the record of
\* the first submission
C22_Witness ==
    /\ last.op = "submit"
    /\ last.rotated = ArchiveName(2)
    /\ ArchiveName(1) \in DOMAIN sentencesDir.files
    /\ sentencesDir.files[ArchiveName(1)] = <<HeaderRow, Row(1)>>

====
